---- MODULE Spec2Model ----
(***************************************************************************)
(* derive_lit: four derive macros (VecLit, VecFrontLit, SetLit, MapLit)    *)
(* that turn a type declaration into a macro_rules! definition.            *)
(*                                                                         *)
(* The model has two layers.  The generator layer follows one expansion of *)
(* a derive through the statements of its function (src/lib.rs), for two   *)
(* expansions in flight at once.  The use-site layer executes the emitted  *)
(* macro_rules! definition on a literal written at a call site.            *)
(*                                                                         *)
(* Identifiers and token texts are sequences of one-character strings.     *)
(***************************************************************************)
EXTENDS Naturals, Sequences, FiniteSets

VARIABLES
    pc,           \* per expansion: position in the derive function
    input,        \* per expansion: the DeriveInput handed in (0 or 1 element)
    macro_name,   \* per expansion: local `macro_name` (0 or 1 element)
    struct_name,  \* per expansion: local `struct_name` (0 or 1 element)
    out,          \* per expansion: the token stream returned (0 or 1 element)
    emitted,      \* definitions handed back to the compiler, in order
    site,         \* use site: the macro definition, the delimiter, the literal
    upc,          \* use site: position in the macro's transcriber
    idx,          \* use site: repetition index
    temp,         \* use site: the local `temp` (0 or 1 element)
    calls,        \* use site: every call executed, in order
    result        \* use site: value of the macro invocation (0 or 1 element)

vars == <<pc, input, macro_name, struct_name, out, emitted,
          site, upc, idx, temp, calls, result>>

genVars  == <<pc, input, macro_name, struct_name, out, emitted>>
siteVars == <<site, upc, idx, temp, calls, result>>

----------------------------------------------------------------------------
(* Bounds *)

MaxNameLen == 3
MaxLits == 3

----------------------------------------------------------------------------
(* Characters, identifiers *)

UpperChars == {"A", "B", "D"}
LowerChars == {"a", "b", "c", "d", "e", "f"}
DigitChars == {"1"}

\* characters the enumerated type names are written with
NameChars == {"A", "B", "a", "b", "1", "_"}

SeqsUpTo(S, n) == UNION {[1..k -> S] : k \in 0..n}

is_uppercase(c) == c \in UpperChars
is_lowercase(c) == c \in LowerChars
is_alphanumeric(c) == c \in UpperChars \cup LowerChars \cup DigitChars

char_to_lowercase(c) ==
    CASE c = "A" -> "a"
      [] c = "B" -> "b"
      [] c = "D" -> "d"
      [] OTHER -> c

str_to_lowercase(s) == [i \in 1..Len(s) |-> char_to_lowercase(s[i])]

\* what the compiler accepts as an identifier text in Ident::new
ident_ok(s) == Len(s) > 0 /\ s[1] \notin DigitChars

\* a struct, enum or union name as the Rust grammar allows it
IsTypeName(s) == ident_ok(s) /\ s # <<"_">>

AllNames == {s \in SeqsUpTo(NameChars, MaxNameLen) : IsTypeName(s)}

----------------------------------------------------------------------------
(* name.to_string().to_snake_case()                                        *)
(*                                                                         *)
(* The case transform walks the characters of each word with a mode        *)
(* (Boundary, Lowercase, Uppercase), cuts a word after a lowercase         *)
(* character followed by an uppercase one and before the last of a run of  *)
(* uppercase characters followed by a lowercase one, drops underscores,    *)
(* lowercases every word and joins the words with "_".                     *)

\* with_word / boundary of the snake-case transform: "_" between words,
\* then the word lowercased
push_word(acc, first_word, w) ==
    (IF first_word THEN acc ELSE Append(acc, "_")) \o str_to_lowercase(w)

RECURSIVE transform(_, _, _, _, _, _)
transform(word, i, init, mode, first_word, acc) ==
    IF i > Len(word) THEN acc
    ELSE LET c == word[i] IN
      IF c = "_"
      THEN transform(word, i + 1, IF init = i THEN init + 1 ELSE init,
                     mode, first_word, acc)
      ELSE IF i < Len(word)
      THEN LET next == word[i + 1]
               next_mode == IF is_lowercase(c) THEN "Lowercase"
                            ELSE IF is_uppercase(c) THEN "Uppercase"
                            ELSE mode
           IN IF next = "_" \/ (next_mode = "Lowercase" /\ is_uppercase(next))
              THEN transform(word, i + 1, i + 1, "Boundary", FALSE,
                             push_word(acc, first_word, SubSeq(word, init, i)))
              ELSE IF mode = "Uppercase" /\ is_uppercase(c) /\ is_lowercase(next)
              THEN transform(word, i + 1, i, "Boundary", FALSE,
                             push_word(acc, first_word, SubSeq(word, init, i - 1)))
              ELSE transform(word, i + 1, init, next_mode, first_word, acc)
      ELSE push_word(acc, first_word, SubSeq(word, init, Len(word)))

\* An identifier is one word when it holds a letter or digit, none otherwise.
to_snake_case(s) ==
    IF \E i \in 1..Len(s) : is_alphanumeric(s[i])
    THEN transform(s, 1, 1, "Boundary", TRUE, <<>>)
    ELSE <<>>

----------------------------------------------------------------------------
(* The declaration handed to a derive *)

Variants == {"VecLit", "VecFrontLit", "SetLit", "MapLit"}

\* syn::Data: Struct (named, unnamed or unit fields), Enum, Union
DataShapes ==
    {[kind |-> "Struct", fields |-> f] : f \in {"Named", "Unnamed", "Unit"}}
    \cup {[kind |-> "Enum", fields |-> "Variants"],
          [kind |-> "Union", fields |-> "Named"]}

\* the type names annotated in the modelled compilation
DeclaredNames ==
    {<<"A", "b">>, <<"A", "B">>, <<"a", "B">>, <<"_", "_">>, <<"_", "_", "_">>}

DeriveInputs(names) ==
    {[variant |-> v, ident |-> n, data |-> d] :
        v \in Variants, n \in names, d \in DataShapes}

Procs == {"p1", "p2"}

----------------------------------------------------------------------------
(* The statements of a derive function *)

\* a shape check that lets a union through
is_struct_or_union(data) == data.kind # "Enum"

\* `if let Data::Struct(_) = data {} else { panic!("expected a struct") }`
is_struct(data) == data.kind = "Struct"

\* a name derivation that folds the case without splitting the words
macro_ident_folded(name) == str_to_lowercase(name)

\* `Ident::new(&name.to_string().to_snake_case(), name.span())`
macro_ident(name) == to_snake_case(name)

\* quote! of derive_vec_lit
quote_vec_lit(mname, sname) ==
    [name |-> mname, body_delim |-> "{", rule_delim |-> "(",
     fragments |-> <<"elem">>, ctor |-> sname,
     method |-> "push", call_args |-> <<"elem">>]

\* a front-insertion template left calling the appender
quote_vec_front_lit_push(mname, sname) ==
    [name |-> mname, body_delim |-> "{", rule_delim |-> "(",
     fragments |-> <<"elem">>, ctor |-> sname,
     method |-> "push", call_args |-> <<"elem">>]

\* quote! of derive_vec_front_lit
quote_vec_front_lit(mname, sname) ==
    [name |-> mname, body_delim |-> "{", rule_delim |-> "(",
     fragments |-> <<"elem">>, ctor |-> sname,
     method |-> "push_front", call_args |-> <<"elem">>]

\* a set template whose rule is written with braces
quote_set_lit_braces(mname, sname) ==
    [name |-> mname, body_delim |-> "{", rule_delim |-> "{",
     fragments |-> <<"elem">>, ctor |-> sname,
     method |-> "insert", call_args |-> <<"elem">>]

\* quote! of derive_set_lit
quote_set_lit(mname, sname) ==
    [name |-> mname, body_delim |-> "{", rule_delim |-> "(",
     fragments |-> <<"elem">>, ctor |-> sname,
     method |-> "insert", call_args |-> <<"elem">>]

\* a map template passing the value before the key
quote_map_lit_swapped(mname, sname) ==
    [name |-> mname, body_delim |-> "(", rule_delim |-> "{",
     fragments |-> <<"key", "val">>, ctor |-> sname,
     method |-> "insert", call_args |-> <<"val", "key">>]

\* quote! of derive_map_lit
quote_map_lit(mname, sname) ==
    [name |-> mname, body_delim |-> "(", rule_delim |-> "{",
     fragments |-> <<"key", "val">>, ctor |-> sname,
     method |-> "insert", call_args |-> <<"key", "val">>]

expanded(variant, mname, sname) ==
    CASE variant = "VecLit" -> quote_vec_lit(mname, sname)
      [] variant = "VecFrontLit" -> quote_vec_front_lit(mname, sname)
      [] variant = "SetLit" -> quote_set_lit(mname, sname)
      [] variant = "MapLit" -> quote_map_lit(mname, sname)

\* a macro name kept in one slot shared by every expansion
shared_macro_name(p) ==
    macro_name[CHOOSE q \in Procs : macro_name[q] # <<>>][1]

\* the locals an expansion reads when it builds its output
local_macro_name(p) == macro_name[p][1]
local_struct_name(p) == struct_name[p][1]

\* The compiler calls a derive entry point with one annotated item.
Receive(p) ==
    /\ pc[p] = "Idle"
    /\ \E i \in DeriveInputs(DeclaredNames) :
          input' = [input EXCEPT ![p] = <<i>>]
    /\ pc' = [pc EXCEPT ![p] = "Parse"]
    /\ UNCHANGED <<macro_name, struct_name, out, emitted, siteVars>>

\* parse_macro_input!, `name`, `data`, `macro_name`, `struct_name`.
\* Ident::new panics on a text that is no identifier.
Parse(p) ==
    /\ pc[p] = "Parse"
    /\ LET name == input[p][1].ident IN
         IF ident_ok(macro_ident(name))
         THEN /\ macro_name' = [macro_name EXCEPT ![p] = <<macro_ident(name)>>]
              /\ struct_name' = [struct_name EXCEPT ![p] = <<name>>]
              /\ pc' = [pc EXCEPT ![p] = "Validate"]
         ELSE /\ pc' = [pc EXCEPT ![p] = "Panicked"]
              /\ UNCHANGED <<macro_name, struct_name>>
    /\ UNCHANGED <<input, out, emitted, siteVars>>

\* the shape check: panic!("expected a struct") on an enum or union
Validate(p) ==
    /\ pc[p] = "Validate"
    /\ pc' = [pc EXCEPT ![p] =
                 IF is_struct(input[p][1].data) THEN "Emit" ELSE "Rejected"]
    /\ UNCHANGED <<input, macro_name, struct_name, out, emitted, siteVars>>

\* quote! { macro_rules! ... } and the return of the token stream
Emit(p) ==
    /\ pc[p] = "Emit"
    /\ LET def == expanded(input[p][1].variant,
                           local_macro_name(p), local_struct_name(p))
       IN /\ out' = [out EXCEPT ![p] = <<def>>]
          /\ emitted' = Append(emitted, def)
    /\ pc' = [pc EXCEPT ![p] = "Done"]
    /\ UNCHANGED <<input, macro_name, struct_name, siteVars>>

Terminal(p) == pc[p] \in {"Done", "Rejected", "Panicked"}

----------------------------------------------------------------------------
(* A use site of an emitted macro: name! [e1, e2, ...] or                  *)
(* name! { k1 => v1, ... }.  An item of the literal is the tuple of the    *)
(* expressions one repetition binds, in the order of the rule's fragments. *)

Elems == {"0", "9"}
Keys == {"a", "b"}
Vals == {"0", "7"}
Delims == {"(", "[", "{"}

ElemItems == {<<e>> : e \in Elems}
PairItems == {<<k, v>> : k \in Keys, v \in Vals}

\* the literals the rule of `def` accepts
LiteralsFor(def) ==
    SeqsUpTo(IF Len(def.fragments) = 1 THEN ElemItems ELSE PairItems, MaxLits)

\* the definitions emitted for the declared structs whose macro name exists
UsableDefs ==
    {expanded(v, macro_ident(n), n) :
        v \in Variants, n \in {m \in DeclaredNames : ident_ok(macro_ident(m))}}

Sites ==
    UNION {{[def |-> d, delim |-> dl, lits |-> l] :
              dl \in Delims, l \in LiteralsFor(d)} : d \in UsableDefs}

\* position of fragment `f` in the rule's matcher
fragment_index(def, f) ==
    CHOOSE j \in 1..Len(def.fragments) : def.fragments[j] = f

\* the arguments `temp.method(...)` gets in one repetition
call_args_of(def, item) ==
    [j \in 1..Len(def.call_args) |-> item[fragment_index(def, def.call_args[j])]]

\* a repetition that walks the literal from its end
repetition_item_reversed(lits, i) == lits[Len(lits) + 1 - i]

\* the item the i-th pass of `$( ... )*` transcribes
repetition_item(lits, i) == lits[i]

\* `let mut temp = Struct::new();`
ConstructTemp ==
    /\ upc = "Invoke"
    /\ temp' = <<[type |-> site[1].def.ctor, ops |-> <<>>]>>
    /\ calls' = Append(calls, [on |-> site[1].def.ctor, fn |-> "new", args |-> <<>>])
    /\ idx' = 1
    /\ upc' = "Repeat"
    /\ UNCHANGED <<site, result, genVars>>

\* one pass of `$( temp.method($elem); )*`
RepeatCall ==
    /\ upc = "Repeat"
    /\ idx <= Len(site[1].lits)
    /\ LET def == site[1].def
           a == call_args_of(def, repetition_item(site[1].lits, idx))
       IN /\ temp' = <<[temp[1] EXCEPT !.ops = Append(@, [fn |-> def.method, args |-> a])]>>
          /\ calls' = Append(calls, [on |-> temp[1].type, fn |-> def.method, args |-> a])
    /\ idx' = idx + 1
    /\ UNCHANGED <<site, upc, result, genVars>>

\* the trailing `temp` of the block
YieldTemp ==
    /\ upc = "Repeat"
    /\ idx > Len(site[1].lits)
    /\ result' = temp
    /\ upc' = "Returned"
    /\ UNCHANGED <<site, idx, temp, calls, genVars>>

----------------------------------------------------------------------------
(* Specifications *)

GenIdle ==
    /\ pc = [p \in Procs |-> "Idle"]
    /\ input = [p \in Procs |-> <<>>]
    /\ macro_name = [p \in Procs |-> <<>>]
    /\ struct_name = [p \in Procs |-> <<>>]
    /\ out = [p \in Procs |-> <<>>]
    /\ emitted = <<>>

SiteUnused ==
    /\ site = <<>>
    /\ upc = "Unused"
    /\ idx = 0
    /\ temp = <<>>
    /\ calls = <<>>
    /\ result = <<>>

\* Two derive expansions of one compilation, their statements interleaved.
Init == GenIdle /\ SiteUnused

Next == \E p \in Procs : Receive(p) \/ Parse(p) \/ Validate(p) \/ Emit(p)

Spec == Init /\ [][Next]_vars

\* One derive expansion, over every type name up to MaxNameLen.
InitName ==
    /\ pc = [p \in Procs |-> IF p = "p1" THEN "Parse" ELSE "Idle"]
    /\ \E i \in DeriveInputs(AllNames) :
          input = [p \in Procs |-> IF p = "p1" THEN <<i>> ELSE <<>>]
    /\ macro_name = [p \in Procs |-> <<>>]
    /\ struct_name = [p \in Procs |-> <<>>]
    /\ out = [p \in Procs |-> <<>>]
    /\ emitted = <<>>
    /\ SiteUnused

NextName == Parse("p1") \/ Validate("p1") \/ Emit("p1")

SpecName == InitName /\ [][NextName]_vars

\* One use site of an emitted macro.
InitMacro ==
    /\ GenIdle
    /\ \E s \in Sites : site = <<s>>
    /\ upc = "Invoke"
    /\ idx = 0
    /\ temp = <<>>
    /\ calls = <<>>
    /\ result = <<>>

NextMacro == ConstructTemp \/ RepeatCall \/ YieldTemp

SpecMacro == InitMacro /\ [][NextMacro]_vars

----------------------------------------------------------------------------
(* Helpers of the properties *)

Reverse(s) == [i \in 1..Len(s) |-> s[Len(s) + 1 - i]]

IsPrefixOf(s, t) == Len(s) <= Len(t) /\ s = SubSeq(t, 1, Len(s))

\* whether `def` is the definition generator `v` emits for its own names
EmittedBy(def, v) == def = expanded(v, def.name, def.ctor)

\* the calls written by hand: new(), then m(item) for each item in order
ManualCalls(sname, m, lits) ==
    <<[on |-> sname, fn |-> "new", args |-> <<>>]>>
    \o [i \in 1..Len(lits) |-> [on |-> sname, fn |-> m, args |-> lits[i]]]

\* the instance built by hand: new(); m(e1); ...; m(en)
RECURSIVE ManualBuild(_, _, _)
ManualBuild(sname, m, lits) ==
    IF lits = <<>> THEN [type |-> sname, ops |-> <<>>]
    ELSE LET before == ManualBuild(sname, m, SubSeq(lits, 1, Len(lits) - 1))
         IN [before EXCEPT !.ops = Append(@, [fn |-> m, args |-> lits[Len(lits)]])]

\* the logical sequence of a target whose one-argument method prepends
RECURSIVE PrependedSeq(_)
PrependedSeq(ops) ==
    IF ops = <<>> THEN <<>>
    ELSE <<ops[Len(ops)].args[1]>> \o PrependedSeq(SubSeq(ops, 1, Len(ops) - 1))

\* what one expansion run on its own gives for a DeriveInput
RunAlone(i) ==
    IF ~ident_ok(to_snake_case(i.ident))
    THEN [pc |-> "Panicked", out |-> <<>>]
    ELSE IF i.data.kind # "Struct"
    THEN [pc |-> "Rejected", out |-> <<>>]
    ELSE [pc |-> "Done", out |-> <<expanded(i.variant, to_snake_case(i.ident), i.ident)>>]

----------------------------------------------------------------------------
(* Properties *)

\* C1: for VecLit and SetLit, the expansion of the emitted macro calls new()
\* once, then push (VecLit) or insert (SetLit) once per literal element, in
\* the literal's left-to-right order, duplicates included, and yields the
\* instance so built: the same calls and value as new(); m(e1); ...; m(en).
ThmBackAndSetInsertion ==
    \A v \in {"VecLit", "SetLit"} :
      (site # <<>> /\ EmittedBy(site[1].def, v)) =>
        LET m == IF v = "VecLit" THEN "push" ELSE "insert"
            want == ManualCalls(site[1].def.ctor, m, site[1].lits)
        IN /\ IsPrefixOf(calls, want)
           /\ upc = "Returned" =>
                /\ calls = want
                /\ result = <<ManualBuild(site[1].def.ctor, m, site[1].lits)>>

WitBackInsertionWithDuplicate ==
    /\ upc = "Returned"
    /\ EmittedBy(site[1].def, "VecLit")
    /\ site[1].lits = <<<<"9">>, <<"0">>, <<"9">>>>
    /\ Len(calls) = 4

\* C2: for VecFrontLit, the expansion calls new() once and then push_front
\* once per element in literal order; on a target whose push_front prepends
\* the logical sequence is the literal reversed.
ThmFrontInsertion ==
    (site # <<>> /\ EmittedBy(site[1].def, "VecFrontLit")) =>
      LET want == ManualCalls(site[1].def.ctor, "push_front", site[1].lits)
      IN /\ IsPrefixOf(calls, want)
         /\ upc = "Returned" =>
              /\ calls = want
              /\ result = <<ManualBuild(site[1].def.ctor, "push_front", site[1].lits)>>
              /\ PrependedSeq(result[1].ops)
                   = Reverse([i \in 1..Len(site[1].lits) |-> site[1].lits[i][1]])

WitFrontInsertion ==
    /\ upc = "Returned"
    /\ EmittedBy(site[1].def, "VecFrontLit")
    /\ site[1].lits = <<<<"0">>, <<"9">>, <<"9">>>>
    /\ PrependedSeq(result[1].ops) = <<"9", "9", "0">>

\* C3: for MapLit, the expansion calls new() once and then insert(key, value)
\* once per pair in literal order, key first; pairs with equal keys are all
\* passed on.
ThmPairInsertion ==
    (site # <<>> /\ EmittedBy(site[1].def, "MapLit")) =>
      LET want == ManualCalls(site[1].def.ctor, "insert", site[1].lits)
      IN /\ IsPrefixOf(calls, want)
         /\ \A i \in 2..Len(calls) : Len(calls[i].args) = 2
         /\ upc = "Returned" =>
              /\ calls = want
              /\ Len(calls) = Len(site[1].lits) + 1
              /\ result = <<ManualBuild(site[1].def.ctor, "insert", site[1].lits)>>

WitPairInsertionDuplicateKey ==
    /\ upc = "Returned"
    /\ EmittedBy(site[1].def, "MapLit")
    /\ site[1].lits = <<<<"a", "0">>, <<"a", "7">>>>
    /\ Len(calls) = 3

\* C4: an expansion on an enum or a union never returns a macro definition:
\* it ends in a panic, nothing of it is among the emitted definitions.
ThmNonStructEmitsNothing ==
    /\ \A p \in Procs :
         (input[p] # <<>> /\ input[p][1].data.kind \in {"Enum", "Union"}) =>
           /\ pc[p] \notin {"Emit", "Done"}
           /\ out[p] = <<>>
    /\ Len(emitted) = Cardinality({p \in Procs : pc[p] = "Done"})
    /\ \A p \in Procs : pc[p] = "Done" => input[p][1].data.kind = "Struct"

WitEnumRejected ==
    \E p \in Procs :
      /\ pc[p] = "Rejected"
      /\ input[p][1].data.kind = "Enum"
      /\ out[p] = <<>>

\* C5: the name of the emitted macro is the snake-case transform of the type
\* name and nothing else (AbcDef gives abc_def), in all four generators, and
\* the transform applied to a transformed name returns it unchanged.
ThmMacroNameIsSnakeCase ==
    /\ to_snake_case(<<"A", "b", "c", "D", "e", "f">>)
         = <<"a", "b", "c", "_", "d", "e", "f">>
    /\ \A p \in Procs :
         /\ input[p] # <<>> =>
              LET t == to_snake_case(input[p][1].ident)
              IN to_snake_case(t) = t
         /\ pc[p] = "Done" =>
              /\ out[p][1].name = to_snake_case(input[p][1].ident)
              /\ out[p][1].ctor = input[p][1].ident

WitSplitName ==
    /\ pc["p1"] = "Done"
    /\ input["p1"][1].ident = <<"a", "B", "b">>
    /\ out["p1"][1].name = <<"a", "_", "b", "b">>

\* C6: a struct is accepted whatever its fields (named, tuple, unit) in
\* every generator, the definition emitted does not depend on the fields,
\* and the macro used with no element calls new() once, calls no mutation
\* method and yields the fresh instance.
CexStructAlwaysAccepted ==
    /\ \A p \in Procs :
         (Terminal(p) /\ input[p][1].data.kind = "Struct") =>
           /\ pc[p] = "Done"
           /\ out[p] = <<expanded(input[p][1].variant,
                                  to_snake_case(input[p][1].ident),
                                  input[p][1].ident)>>
    /\ (upc = "Returned" /\ site[1].lits = <<>>) =>
           /\ calls = <<[on |-> site[1].def.ctor, fn |-> "new", args |-> <<>>]>>
           /\ result = <<[type |-> site[1].def.ctor, ops |-> <<>>]>>

\* C7: two distinct struct names with the same transformed name, both
\* annotated: each expansion succeeds and emits its own definition, so two
\* definitions of one name are emitted.
CexCollidingNamesBothEmit ==
    \A p, q \in Procs :
      (/\ p # q
       /\ Terminal(p) /\ Terminal(q)
       /\ input[p][1].data.kind = "Struct" /\ input[q][1].data.kind = "Struct"
       /\ input[p][1].ident # input[q][1].ident
       /\ to_snake_case(input[p][1].ident) = to_snake_case(input[q][1].ident))
      => /\ pc[p] = "Done" /\ pc[q] = "Done"
         /\ out[p][1].name = out[q][1].name
         /\ Len(emitted) = 2
         /\ emitted[1].name = emitted[2].name

\* C8 (as amended): the definition SetLit emits differs from the one VecLit
\* emits for the same type name in the mutation call alone, insert where
\* VecLit has push; the parsing rule of both is the same parenthesised
\* comma list of expressions.
ThmSetDiffersFromVecInMethodOnly ==
    \A p, q \in Procs :
      (/\ pc[p] = "Done" /\ pc[q] = "Done"
       /\ input[p][1].variant = "VecLit" /\ input[q][1].variant = "SetLit"
       /\ input[p][1].ident = input[q][1].ident)
      => /\ out[p][1].method = "push"
         /\ out[q][1].method = "insert"
         /\ out[q][1] = [out[p][1] EXCEPT !.method = "insert"]
         /\ out[p][1].rule_delim = "(" /\ out[q][1].rule_delim = "("
         /\ out[p][1].fragments = <<"elem">> /\ out[q][1].fragments = <<"elem">>

WitSetAndVecSameType ==
    /\ pc["p1"] = "Done" /\ pc["p2"] = "Done"
    /\ input["p1"][1].variant = "VecLit" /\ input["p2"][1].variant = "SetLit"
    /\ input["p1"][1].ident = input["p2"][1].ident

\* C8 (as stated): the SetLit rule is brace-delimited where the VecLit rule
\* is bracket-delimited, and the mutation call is insert where VecLit's is
\* push.
CexSetRuleBracesVecRuleBrackets ==
    \A p, q \in Procs :
      (/\ pc[p] = "Done" /\ pc[q] = "Done"
       /\ input[p][1].variant = "VecLit" /\ input[q][1].variant = "SetLit"
       /\ input[p][1].ident = input[q][1].ident)
      => /\ out[q][1].rule_delim = "{"
         /\ out[p][1].rule_delim = "["
         /\ out[q][1].method = "insert"
         /\ out[p][1].method = "push"

\* C9: every expansion ends in Emit (done) or in Rejected and nowhere else;
\* only the shape check fails, so a struct always reaches Emit and a
\* non-struct is rejected after its macro name was derived, with no output.
CexOnlyShapeCheckFails ==
    \A p \in Procs :
      /\ pc[p] # "Panicked"
      /\ Terminal(p) =>
           /\ (input[p][1].data.kind = "Struct") <=> (pc[p] = "Done")
           /\ (input[p][1].data.kind # "Struct") <=> (pc[p] = "Rejected")
      /\ pc[p] = "Rejected" => (macro_name[p] # <<>> /\ out[p] = <<>>)

\* C10: the outcome of an expansion (the definition returned, or the
\* failure) is the one it has when run alone on its input, whatever the
\* other expansion does in between; two expansions given the same input end
\* alike.
ThmExpansionsIndependent ==
    /\ \A p \in Procs :
         Terminal(p) => [pc |-> pc[p], out |-> out[p]] = RunAlone(input[p][1])
    /\ \A p, q \in Procs :
         (Terminal(p) /\ Terminal(q) /\ input[p] = input[q]) =>
           (pc[p] = pc[q] /\ out[p] = out[q])

WitTwoExpansionsDone ==
    /\ pc["p1"] = "Done" /\ pc["p2"] = "Done"
    /\ out["p1"][1].name # out["p2"][1].name
    /\ out["p1"] = RunAlone(input["p1"][1]).out

====
